---- MODULE Spec2Model ----
(***************************************************************************)
(* Model of RandomAccessUnorderedMap<K, V> (src/unnamed/part_000): a       *)
(* vector of (key, value) elements plus an unordered_map from key to the   *)
(* element's slot, with swap-and-pop removal and a random key draw.        *)
(***************************************************************************)
EXTENDS Integers, Sequences, FiniteSets, TLC

\* ---------------------------------------------------------------- bounds
NumKeys == 3
NumValues == 2
MaxSize == 4

Keys == 1..NumKeys
Values == 1..NumValues

VARIABLES element_set, index_map, status, op, result,
          pre_element_set, pre_index_map, latest, arith

vars == <<element_set, index_map, status, op, result,
          pre_element_set, pre_index_map, latest, arith>>

\* ------------------------------------------------------- std::optional<T>
nullopt == [has_value |-> FALSE]

some(v) == [has_value |-> TRUE, value |-> v]

\* ------------------------------------------------------ struct Element
Element(key, value) == [key |-> key, value |-> value]

\* ------------------------------------------- std::vector / unordered_map
\* element_set.size() - 1 as the code computes it.  On the empty vector the
\* size_t subtraction wraps to SIZE_MAX; -1 stands for that value here: it
\* equals no uint32_t index, and narrowed to int (random_key) it is -1.
SizeMinusOne(S) == Len(S) - 1

\* Precondition of std::vector::operator[] on a zero-based index.
InRange(S, i) == i >= 0 /\ i < Len(S)

\* element_set[i] for a zero-based index i (only used when InRange).
ElementAt(S, i) == S[i + 1]

pop_back(S) == SubSeq(S, 1, Len(S) - 1)

swap(S, i, j) ==
    [x \in DOMAIN S |-> IF x = i + 1 THEN S[j + 1]
                        ELSE IF x = j + 1 THEN S[i + 1] ELSE S[x]]

\* index_map[k] = i : the bracket operator inserts or overwrites.
Bracket(P, k, i) == [x \in (DOMAIN P) \cup {k} |-> IF x = k THEN i ELSE P[x]]

\* index_map.insert(pair(k, i)) : ignored when k is already a key.
MapInsert(P, k, i) == IF k \in DOMAIN P THEN P ELSE Bracket(P, k, i)

\* index_map.erase(k)
Erase(P, k) == [x \in (DOMAIN P) \ {k} |-> P[x]]

\* --------------------------------------------------------- find_index
\* Mutation: lookup through the bracket operator, which default-constructs
\* a slot 0 entry for an absent key.
find_index_Bracket(P, key) ==
    LET P1 == IF key \in DOMAIN P THEN P ELSE Bracket(P, key, 0)
    IN [ret |-> some(P1[key]), index_map |-> P1]

find_index(P, key) ==
    [ret |-> IF key \in DOMAIN P THEN some(P[key]) ELSE nullopt,
     index_map |-> P]

\* --------------------------------------------------------------- find
\* ub marks an out-of-range element_set[] access.
find(S, P, key) ==
    LET index_optional == find_index(P, key)
    IN IF index_optional.ret.has_value
       THEN IF InRange(S, index_optional.ret.value)
            THEN [ub |-> FALSE,
                  ret |-> some(ElementAt(S, index_optional.ret.value).value),
                  index_map |-> index_optional.index_map]
            ELSE [ub |-> TRUE, ret |-> nullopt,
                  index_map |-> index_optional.index_map]
       ELSE [ub |-> FALSE, ret |-> nullopt,
             index_map |-> index_optional.index_map]

\* ------------------------------------------------------------- remove
\* Mutation: the relocated element's slot is not written back to index_map
\* (what index_map.insert would do, since the key already exists).
remove_NoReindex(S, P, key) ==
    LET index_optional == find_index(P, key)
        P0 == index_optional.index_map
    IN IF ~index_optional.ret.has_value
       THEN [ub |-> FALSE, element_set |-> S, index_map |-> P0]
       ELSE LET index == index_optional.ret.value
            IN IF index = SizeMinusOne(S)
               THEN [ub |-> FALSE, element_set |-> pop_back(S),
                     index_map |-> Erase(P0, key)]
               ELSE IF ~InRange(S, index)
                    THEN [ub |-> TRUE, element_set |-> S, index_map |-> P0]
                    ELSE [ub |-> FALSE,
                          element_set |-> pop_back(swap(S, index, SizeMinusOne(S))),
                          index_map |-> Erase(P0, key)]

\* Mutation: pop_back only in the swap branch, so removing the element in
\* the last slot erases the key but keeps the element.
remove_NoPopLast(S, P, key) ==
    LET index_optional == find_index(P, key)
        P0 == index_optional.index_map
    IN IF ~index_optional.ret.has_value
       THEN [ub |-> FALSE, element_set |-> S, index_map |-> P0]
       ELSE LET index == index_optional.ret.value
            IN IF index = SizeMinusOne(S)
               THEN [ub |-> FALSE, element_set |-> S,
                     index_map |-> Erase(P0, key)]
               ELSE IF ~InRange(S, index)
                    THEN [ub |-> TRUE, element_set |-> S, index_map |-> P0]
                    ELSE LET S2 == pop_back(swap(S, index, SizeMinusOne(S)))
                             local_key == ElementAt(S2, index).key
                         IN [ub |-> FALSE, element_set |-> S2,
                             index_map |-> Erase(Bracket(P0, local_key, index), key)]

\* Mutation: no has_value() test; an absent key is treated as slot 0.
remove_NoPresenceCheck(S, P, key) ==
    LET index_optional == find_index(P, key)
        P0 == index_optional.index_map
        index == IF index_optional.ret.has_value
                 THEN index_optional.ret.value ELSE 0
    IN IF index = SizeMinusOne(S)
       THEN [ub |-> FALSE, element_set |-> pop_back(S),
             index_map |-> Erase(P0, key)]
       ELSE IF ~InRange(S, index)
            THEN [ub |-> TRUE, element_set |-> S, index_map |-> P0]
            ELSE LET S2 == pop_back(swap(S, index, SizeMinusOne(S)))
                     local_key == ElementAt(S2, index).key
                 IN [ub |-> FALSE, element_set |-> S2,
                     index_map |-> Erase(Bracket(P0, local_key, index), key)]

\* Mutation: the final index_map.erase(key) is missing.
remove_NoErase(S, P, key) ==
    LET index_optional == find_index(P, key)
        P0 == index_optional.index_map
    IN IF ~index_optional.ret.has_value
       THEN [ub |-> FALSE, element_set |-> S, index_map |-> P0]
       ELSE LET index == index_optional.ret.value
            IN IF index = SizeMinusOne(S)
               THEN [ub |-> FALSE, element_set |-> pop_back(S), index_map |-> P0]
               ELSE IF ~InRange(S, index)
                    THEN [ub |-> TRUE, element_set |-> S, index_map |-> P0]
                    ELSE LET S2 == pop_back(swap(S, index, SizeMinusOne(S)))
                             local_key == ElementAt(S2, index).key
                         IN [ub |-> FALSE, element_set |-> S2,
                             index_map |-> Bracket(P0, local_key, index)]

\* Mutation: the element is erased in place (element_set.erase), shifting
\* every later element down one slot, and the index follows.
remove_EraseShift(S, P, key) ==
    LET index_optional == find_index(P, key)
        P0 == index_optional.index_map
    IN IF ~index_optional.ret.has_value
       THEN [ub |-> FALSE, element_set |-> S, index_map |-> P0]
       ELSE LET index == index_optional.ret.value
            IN IF ~InRange(S, index)
               THEN [ub |-> TRUE, element_set |-> S, index_map |-> P0]
               ELSE [ub |-> FALSE,
                     element_set |-> SubSeq(S, 1, index)
                                         \o SubSeq(S, index + 2, Len(S)),
                     index_map |-> [x \in (DOMAIN P0) \ {key} |->
                                       IF P0[x] > index THEN P0[x] - 1
                                       ELSE P0[x]]]

\* remove(key): swap-and-pop.  ub marks an out-of-range element_set[] access
\* in the swap branch (a stored index that is neither the last slot nor a
\* valid slot).
remove(S, P, key) ==
    LET index_optional == find_index(P, key)
        P0 == index_optional.index_map
    IN IF ~index_optional.ret.has_value
       THEN [ub |-> FALSE, element_set |-> S, index_map |-> P0]
       ELSE LET index == index_optional.ret.value
            IN IF index = SizeMinusOne(S)
               THEN [ub |-> FALSE, element_set |-> pop_back(S),
                     index_map |-> Erase(P0, key)]
               ELSE IF ~InRange(S, index)
                    THEN [ub |-> TRUE, element_set |-> S, index_map |-> P0]
                    ELSE LET S2 == pop_back(swap(S, index, SizeMinusOne(S)))
                             local_key == ElementAt(S2, index).key
                         IN [ub |-> FALSE, element_set |-> S2,
                             index_map |-> Erase(Bracket(P0, local_key, index), key)]

\* ------------------------------------------------------------- insert
\* Mutation: the leading remove(key) is missing.
insert_NoRemove(S, P, key, value) ==
    LET S1 == Append(S, Element(key, value))
    IN [ub |-> FALSE, element_set |-> S1,
        index_map |-> MapInsert(P, key, SizeMinusOne(S1))]

\* Mutation: an existing key is overwritten in its slot instead of being
\* removed and appended.
insert_InPlace(S, P, key, value) ==
    IF key \in DOMAIN P /\ InRange(S, P[key])
    THEN [ub |-> FALSE,
          element_set |-> [S EXCEPT ![P[key] + 1] = Element(key, value)],
          index_map |-> P]
    ELSE LET S1 == Append(S, Element(key, value))
         IN [ub |-> FALSE, element_set |-> S1,
             index_map |-> MapInsert(P, key, SizeMinusOne(S1))]

\* insert(key, value): remove(key), emplace_back, index_map.insert.  The
\* uint32_t narrowing of the stored slot is the identity below 2^32.
insert(S, P, key, value) ==
    LET r == remove(S, P, key)
        S1 == Append(r.element_set, Element(key, value))
    IN [ub |-> r.ub, element_set |-> S1,
        index_map |-> MapInsert(r.index_map, key, SizeMinusOne(S1))]

\* --------------------------------------------------------- random_key
\* Mutation: upper bound size() instead of size() - 1.
distrib_OffByOne(S) == 0..Len(S)

\* The support of uniform_int_distribution<>(0, element_set.size() - 1):
\* empty when the upper bound, narrowed to int, is -1 (a > b violates the
\* distribution's precondition).
distrib(S) == 0..SizeMinusOne(S)

\* ------------------------------------------------------------ actions
\* op, result, pre_element_set, pre_index_map record the last call, what it
\* returned and the contents it was called on.  latest is the history of
\* the calls themselves: per key, the value of its most recent insert when
\* no remove of that key came after it.  arith records the last call of a
\* free-standing modular arithmetic function (none on the container).
void == [kind |-> "void"]

Init ==
    /\ element_set = <<>>
    /\ index_map = <<>>
    /\ status = "running"
    /\ op = [name |-> "ctor"]
    /\ result = void
    /\ pre_element_set = <<>>
    /\ pre_index_map = <<>>
    /\ latest = [k \in Keys |-> nullopt]
    /\ arith = [fn |-> "none"]

Called(o) ==
    /\ status = "running"
    /\ op' = o
    /\ pre_element_set' = element_set
    /\ pre_index_map' = index_map
    /\ UNCHANGED arith

\* An out-of-range element access inside find, remove or insert.  No
\* reachable state has one (NoUndefinedAccess); the call is recorded as not
\* returning.
StatusAfter(ub) == IF ub THEN "aborted" ELSE "running"

Insert(key, value) ==
    /\ Len(element_set) < MaxSize
    /\ Called([name |-> "insert", key |-> key, value |-> value])
    /\ LET r == insert(element_set, index_map, key, value)
       IN /\ element_set' = r.element_set
          /\ index_map' = r.index_map
          /\ status' = StatusAfter(r.ub)
    /\ result' = void
    /\ latest' = [latest EXCEPT ![key] = some(value)]

Remove(key) ==
    /\ Called([name |-> "remove", key |-> key])
    /\ LET r == remove(element_set, index_map, key)
       IN /\ element_set' = r.element_set
          /\ index_map' = r.index_map
          /\ status' = StatusAfter(r.ub)
    /\ result' = void
    /\ latest' = [latest EXCEPT ![key] = nullopt]

Find(key) ==
    /\ Called([name |-> "find", key |-> key])
    /\ LET r == find(element_set, index_map, key)
       IN /\ index_map' = r.index_map
          /\ status' = StatusAfter(r.ub)
          /\ result' = [kind |-> "optional", optional |-> r.ret]
    /\ UNCHANGED <<element_set, latest>>

\* random_key(): a slot drawn from distrib, then element_set[slot].key.
\* With an empty distrib (empty container) or a slot past the end, the
\* behaviour is undefined: the build either traps (library assertion,
\* fault on the read) or returns whatever the out-of-range read yields.
RandomKey ==
    /\ Called([name |-> "random_key"])
    /\ UNCHANGED <<element_set, index_map, latest>>
    /\ \/ \E random_index \in distrib(element_set) :
            /\ InRange(element_set, random_index)
            /\ status' = "running"
            /\ result' = [kind |-> "key",
                          key |-> ElementAt(element_set, random_index).key]
       \/ /\ \/ distrib(element_set) = {}
             \/ \E random_index \in distrib(element_set) :
                    ~InRange(element_set, random_index)
          /\ \/ /\ status' = "aborted"
                /\ result' = void
             \/ /\ status' = "running"
                /\ result' = [kind |-> "garbage"]

Next ==
    \/ \E key \in Keys, value \in Values : Insert(key, value)
    \/ \E key \in Keys : Remove(key)
    \/ \E key \in Keys : Find(key)
    \/ RandomKey

Spec == Init /\ [][Next]_vars

\* ------------------------------------------------------------- claims
\* Whether the call recorded in op found its key present on entry.
WasPresent == find(pre_element_set, pre_index_map, op.key).ret.has_value

\* No find, remove or insert on the current contents makes an out-of-range
\* element access, for any key.
NoUndefinedAccess ==
    \A k \in Keys :
        /\ ~find(element_set, index_map, k).ub
        /\ ~remove(element_set, index_map, k).ub

\* C1: in every reachable state the position index and the dense store are
\* consistent: every indexed key maps to a valid slot holding that key,
\* every slot is indexed by its own key, and both have the same length.
C1_Consistent ==
    /\ \A k \in DOMAIN index_map :
          /\ InRange(element_set, index_map[k])
          /\ ElementAt(element_set, index_map[k]).key = k
    /\ \A i \in 0..(Len(element_set) - 1) :
          /\ ElementAt(element_set, i).key \in DOMAIN index_map
          /\ index_map[ElementAt(element_set, i).key] = i
    /\ Cardinality(DOMAIN index_map) = Len(element_set)
    /\ NoUndefinedAccess

\* A removal from the middle of a store of three: the last element was
\* swapped into the freed slot.
C1_Witness ==
    /\ op.name = "remove"
    /\ WasPresent
    /\ Len(pre_element_set) = 3
    /\ pre_index_map[op.key] = 0
    /\ Len(element_set) = 2
    /\ ElementAt(element_set, 0) = ElementAt(pre_element_set, 2)

\* C2: find(k) returns the value of the most recent insert(k, v) that no
\* remove(k) followed, and not-found otherwise, whatever happened to other
\* keys in between.
C2_LookupCorrect ==
    /\ \A k \in Keys :
          /\ ~find(element_set, index_map, k).ub
          /\ find(element_set, index_map, k).ret = latest[k]
    /\ op.name = "find" =>
          result = [kind |-> "optional", optional |-> latest[op.key]]

\* A removal relocated another key's element to a new slot, and find of
\* that key still yields its inserted value.
C2_Witness ==
    /\ op.name = "remove"
    /\ WasPresent
    /\ \E k \in DOMAIN index_map :
          /\ pre_index_map[k] # index_map[k]
          /\ find(element_set, index_map, k).ret = latest[k]
          /\ latest[k].has_value

\* C3: size(), read as element_set.size(), grows by one on insert of an
\* absent key, is unchanged on
\* insert of a present key, shrinks by one on remove of a present key and
\* is unchanged on remove of an absent key.
C3_SizeConservation ==
    /\ op.name = "insert" =>
          Len(element_set) =
              Len(pre_element_set) + (IF WasPresent THEN 0 ELSE 1)
    /\ op.name = "remove" =>
          Len(element_set) =
              Len(pre_element_set) - (IF WasPresent THEN 1 ELSE 0)

\* The element in the last slot of a store of two was removed.
C3_Witness ==
    /\ op.name = "remove"
    /\ WasPresent
    /\ pre_index_map[op.key] = 1
    /\ Len(pre_element_set) = 2
    /\ Len(element_set) = 1

\* C4: remove of an absent key returns normally and leaves the dense store
\* and the position index exactly as they were.
C4_RemoveAbsentNoOp ==
    (op.name = "remove" /\ ~WasPresent) =>
        /\ element_set = pre_element_set
        /\ index_map = pre_index_map
        /\ status = "running"
        /\ result = void

\* An absent key was removed from a non-empty container.
C4_Witness ==
    /\ op.name = "remove"
    /\ ~WasPresent
    /\ Len(pre_element_set) = 2
    /\ Len(element_set) = 2

\* C5: remove(k); remove(k) leaves the same store, index and find results
\* as a single remove(k), from every reachable state and for every key.
C5_RemovalIdempotent ==
    /\ \A k \in Keys :
          LET r1 == remove(element_set, index_map, k)
              r2 == remove(r1.element_set, r1.index_map, k)
          IN /\ r2 = r1
             /\ \A j \in Keys :
                   find(r2.element_set, r2.index_map, j).ret
                       = find(r1.element_set, r1.index_map, j).ret
    /\ op.name = "remove" =>
          remove(element_set, index_map, op.key) =
              [ub |-> FALSE, element_set |-> element_set,
               index_map |-> index_map]

\* A present key was removed by swap-and-pop, other keys remain, and a
\* further remove of it is about to act on the result.
C5_Witness ==
    /\ op.name = "remove"
    /\ WasPresent
    /\ pre_index_map[op.key] < Len(pre_element_set) - 1
    /\ Len(element_set) >= 2
    /\ op.key \notin DOMAIN index_map

\* C6: after insert(k, v) the last slot holds (k, v), the index maps k to
\* the last slot and no other slot holds k, whether or not k was present.
C6_InsertMovesToTail ==
    op.name = "insert" =>
        /\ Len(element_set) >= 1
        /\ ElementAt(element_set, Len(element_set) - 1)
               = Element(op.key, op.value)
        /\ op.key \in DOMAIN index_map
        /\ index_map[op.key] = Len(element_set) - 1
        /\ \A i \in 0..(Len(element_set) - 2) :
               ElementAt(element_set, i).key # op.key

\* A key held in slot 0 of a store of three was inserted again with a
\* different value.
C6_Witness ==
    /\ op.name = "insert"
    /\ WasPresent
    /\ Len(pre_element_set) = 3
    /\ pre_index_map[op.key] = 0
    /\ ElementAt(pre_element_set, 0).value # op.value
    /\ index_map[op.key] = 2

\* C7: on a non-empty container random_key() returns normally the key of a
\* slot in 0..len-1, which is a live key, and the keys it can return are
\* exactly the live keys.
C7_RandomKeyLive ==
    /\ (op.name = "random_key" /\ pre_element_set # <<>>) =>
          /\ status = "running"
          /\ result.kind = "key"
          /\ result.key \in DOMAIN index_map
          /\ find(element_set, index_map, result.key).ret.has_value
          /\ latest[result.key].has_value
    /\ element_set # <<>> =>
          /\ distrib(element_set) = 0..(Len(element_set) - 1)
          /\ {ElementAt(element_set, i).key :
                 i \in 0..(Len(element_set) - 1)} = DOMAIN index_map
          /\ DOMAIN index_map = {k \in Keys : latest[k].has_value}

\* random_key() returned the key of slot 0 after a removal had left two of
\* three keys live.
C7_Witness ==
    /\ op.name = "random_key"
    /\ Len(element_set) = 2
    /\ result.kind = "key"
    /\ result.key = ElementAt(element_set, 0).key
    /\ \E k \in Keys : k \notin DOMAIN index_map

\* C8: random_key() on an empty container fails fast or returns an explicit
\* error, never a meaningless value, and leaves the contents consistent.
C8_RandomKeyEmptyFailsFast ==
    (op.name = "random_key" /\ pre_element_set = <<>>) =>
        /\ status = "aborted" \/ result.kind = "error"
        /\ result.kind # "garbage"
        /\ element_set = <<>>
        /\ DOMAIN index_map = {}

\* C10: find (key present or absent) and random_key on a non-empty
\* container leave the dense store and the position index unchanged.
C10_QueriesPure ==
    (op.name = "find" \/ (op.name = "random_key" /\ pre_element_set # <<>>)) =>
        /\ element_set = pre_element_set
        /\ index_map = pre_index_map

\* find of an absent key on a non-empty container returned not-found.
C10_Witness ==
    /\ op.name = "find"
    /\ ~WasPresent
    /\ Len(element_set) = 2
    /\ result = [kind |-> "optional", optional |-> nullopt]

\* C13: remove(k) of a present key at slot i relocates at most one other
\* entry: the key that was in the last slot moves to i when i is not the
\* last slot, every other key keeps its slot, every remaining key keeps its
\* value, k leaves the index and the store is shorter by one.
C13_RemoveRelocatesOne ==
    (op.name = "remove" /\ WasPresent) =>
        LET i == pre_index_map[op.key]
            last == Len(pre_element_set) - 1
            last_key == ElementAt(pre_element_set, last).key
        IN /\ op.key \notin DOMAIN index_map
           /\ Len(element_set) = Len(pre_element_set) - 1
           /\ DOMAIN index_map = (DOMAIN pre_index_map) \ {op.key}
           /\ \A k \in (DOMAIN pre_index_map) \ {op.key} :
                 /\ k \in DOMAIN index_map
                 /\ index_map[k] =
                        (IF i # last /\ k = last_key
                         THEN i ELSE pre_index_map[k])
                 /\ InRange(element_set, index_map[k])
                 /\ ElementAt(element_set, index_map[k])
                        = ElementAt(pre_element_set, pre_index_map[k])
           /\ i # last => index_map[last_key] # pre_index_map[last_key]

\* The middle one of three elements was removed: the key of slot 2 now
\* maps to slot 1 and the key of slot 0 stayed.
C13_Witness ==
    /\ op.name = "remove"
    /\ WasPresent
    /\ Len(pre_element_set) = 3
    /\ pre_index_map[op.key] = 1
    /\ index_map[ElementAt(pre_element_set, 2).key] = 1
    /\ index_map[ElementAt(pre_element_set, 0).key] = 0

\* ------------------------------------------- modular arithmetic snippets
\* The functions work on uint64_t / int64_t; the model keeps the wrap-around
\* of the fixed width at a width of Width bits.
Width == 4
MaxExp == 9

Modulus == 2 ^ Width
UIntMax == Modulus - 1
IntMin == -(2 ^ (Width - 1))
IntMax == 2 ^ (Width - 1) - 1

\* Unsigned arithmetic: the result reduced modulo 2^Width.
U(x) == x % Modulus

\* Two's complement value of x after a signed operation wrapped.
WrapSigned(x) == ((x - IntMin) % Modulus) + IntMin

\* The C++ operator % for b > 0: the remainder of truncated division, with
\* the sign of the dividend.
Rem(a, b) == IF a >= 0 THEN a % b ELSE -((-a) % b)

\* A call that did not return (failed assert, trap) and one that returned x.
Aborted == [abort |-> TRUE]

Ret(x) == [abort |-> FALSE, ret |-> x]

\* mod_add(a, b, n); ndebug tells whether the asserts are compiled out.
mod_add(ndebug, a, b, n) ==
    IF ~ndebug /\ ~(a < n /\ b < n /\ n > 0)
    THEN Aborted
    ELSE IF b = 0
         THEN Ret(a)
         ELSE LET b1 == U(n - b)
              IN IF a >= b1 THEN Ret(U(a - b1)) ELSE Ret(U(U(n - b1) + a))

\* The while (b) loop of mod_multiply.
RECURSIVE mod_multiply_loop(_, _, _, _, _)
mod_multiply_loop(ndebug, a, b, n, product) ==
    IF b = 0
    THEN Ret(product)
    ELSE LET p == IF b % 2 = 1 THEN mod_add(ndebug, product, a, n)
                  ELSE Ret(product)
         IN IF p.abort
            THEN Aborted
            ELSE LET a1 == mod_add(ndebug, a, a, n)
                 IN IF a1.abort
                    THEN Aborted
                    ELSE mod_multiply_loop(ndebug, a1.ret, b \div 2, n, p.ret)

\* mod_multiply(a, b, n): double and add, the larger factor in a.
mod_multiply(ndebug, a, b, n) ==
    IF ~ndebug /\ ~(a < n /\ b < n /\ n > 0)
    THEN Aborted
    ELSE IF b > a
         THEN mod_multiply_loop(ndebug, b, a, n, 0)
         ELSE mod_multiply_loop(ndebug, a, b, n, 0)

mod_sqr(ndebug, a, n) ==
    IF ~ndebug /\ ~(a < n /\ n > 0)
    THEN Aborted
    ELSE mod_multiply(ndebug, a, a, n)

\* The while (1) loop of mod_power, entered with e # 0.
RECURSIVE mod_power_loop(_, _, _, _, _)
mod_power_loop(ndebug, z, y, e, n) ==
    LET y1 == IF e % 2 = 1 THEN mod_multiply(ndebug, y, z, n) ELSE Ret(y)
        e1 == e \div 2
    IN IF y1.abort
       THEN Aborted
       ELSE IF e1 = 0
            THEN Ret(y1.ret)
            ELSE LET z1 == mod_sqr(ndebug, z, n)
                 IN IF z1.abort
                    THEN Aborted
                    ELSE mod_power_loop(ndebug, z1.ret, y1.ret, e1, n)

\* mod_power(a, e, n)
mod_power(ndebug, a, e, n) ==
    IF ~ndebug /\ ~(a < n /\ n > 0)
    THEN Aborted
    ELSE IF e = 0 THEN Ret(1) ELSE mod_power_loop(ndebug, a, 1, e, n)

\* A signed addition.  Overflow of int64_t is undefined behaviour: overflow
\* names what the build makes of it, "wrap" (two's complement result) or
\* "trap" (the call does not return).
SignedAdd(overflow, x, y) ==
    IF x + y >= IntMin /\ x + y <= IntMax
    THEN Ret(x + y)
    ELSE IF overflow = "wrap" THEN Ret(WrapSigned(x + y)) ELSE Aborted

\* mod(a, n): ((a % n) + n) % n in int64_t, returned as uint64_t.
mod(overflow, a, n) ==
    LET sum == SignedAdd(overflow, Rem(a, n), n)
    IN IF sum.abort THEN Aborted ELSE Ret(U(Rem(sum.ret, n)))

\* euclidean_modulo_natural(a, b): ((a % b) + b) % b, returned as int64_t.
euclidean_modulo_natural(overflow, a, b) ==
    LET sum == SignedAdd(overflow, Rem(a, b), b)
    IN IF sum.abort THEN Aborted ELSE Ret(Rem(sum.ret, b))

\* The container as constructed; it takes no part in the arithmetic.
ContainerIdle ==
    /\ element_set = <<>>
    /\ index_map = <<>>
    /\ status = "running"
    /\ op = [name |-> "ctor"]
    /\ result = void
    /\ pre_element_set = <<>>
    /\ pre_index_map = <<>>
    /\ latest = [k \in Keys |-> nullopt]

\* Arguments of mod_power that satisfy its asserts (n > 0, a < n), in a
\* build with or without NDEBUG.
ModPowerArgs ==
    {[fn |-> "mod_power", phase |-> "call", ndebug |-> ndebug,
      a |-> a, e |-> e, n |-> n] :
        ndebug \in BOOLEAN, a \in 0..UIntMax, e \in 0..MaxExp,
        n \in 1..UIntMax}

\* Arguments of mod and euclidean_modulo_natural that satisfy their assert
\* (a positive modulus): every signed a, every positive n of the width.
SignedModArgs ==
    {[fn |-> fn, phase |-> "call", overflow |-> overflow, a |-> a, n |-> n] :
        fn \in {"mod", "euclidean_modulo_natural"},
        overflow \in {"wrap", "trap"},
        a \in IntMin..IntMax, n \in 1..IntMax}

InitArith ==
    /\ ContainerIdle
    /\ arith \in {x \in ModPowerArgs : x.a < x.n} \cup SignedModArgs

ModPower ==
    /\ arith.fn = "mod_power"
    /\ arith.phase = "call"
    /\ arith' = [fn |-> "mod_power", phase |-> "return",
                 ndebug |-> arith.ndebug,
                 a |-> arith.a, e |-> arith.e, n |-> arith.n,
                 out |-> mod_power(arith.ndebug, arith.a, arith.e, arith.n)]
    /\ UNCHANGED <<element_set, index_map, status, op, result,
                   pre_element_set, pre_index_map, latest>>

Mod ==
    /\ arith.fn = "mod"
    /\ arith.phase = "call"
    /\ arith' = [fn |-> "mod", phase |-> "return",
                 overflow |-> arith.overflow, a |-> arith.a, n |-> arith.n,
                 out |-> mod(arith.overflow, arith.a, arith.n)]
    /\ UNCHANGED <<element_set, index_map, status, op, result,
                   pre_element_set, pre_index_map, latest>>

EuclideanModuloNatural ==
    /\ arith.fn = "euclidean_modulo_natural"
    /\ arith.phase = "call"
    /\ arith' = [fn |-> "euclidean_modulo_natural", phase |-> "return",
                 overflow |-> arith.overflow, a |-> arith.a, n |-> arith.n,
                 out |-> euclidean_modulo_natural(arith.overflow,
                                                  arith.a, arith.n)]
    /\ UNCHANGED <<element_set, index_map, status, op, result,
                   pre_element_set, pre_index_map, latest>>

NextArith ==
    \/ ModPower
    \/ Mod
    \/ EuclideanModuloNatural

SpecArith == InitArith /\ [][NextArith]_vars

\* a^e reduced modulo n, by the definition of the power.
RECURSIVE PowerMod(_, _, _)
PowerMod(a, e, n) == IF e = 0 THEN 1 % n ELSE (a * PowerMod(a, e - 1, n)) % n

\* C11: for every n > 0, a < n and e >= 0, mod_power(a, e, n) returns
\* a^e reduced modulo n, a value in 0..n-1.
C11_ModPowerCorrect ==
    (arith.fn = "mod_power" /\ arith.phase = "return") =>
        /\ ~arith.out.abort
        /\ arith.out.ret = PowerMod(arith.a, arith.e, arith.n)
        /\ arith.out.ret \in 0..(arith.n - 1)

\* The same statement for every modulus above 1 (not a claim of its own).
ModPowerCorrectAboveOne ==
    (arith.fn = "mod_power" /\ arith.phase = "return" /\ arith.n > 1) =>
        /\ ~arith.out.abort
        /\ arith.out.ret = PowerMod(arith.a, arith.e, arith.n)

\* C12: for every signed a and every positive modulus of the width, mod and
\* euclidean_modulo_natural return the Euclidean remainder r: 0 <= r <
\* modulus and a - r is a multiple of the modulus.
C12_EuclideanRemainder ==
    (arith.fn \in {"mod", "euclidean_modulo_natural"}
        /\ arith.phase = "return") =>
        /\ ~arith.out.abort
        /\ arith.out.ret >= 0
        /\ arith.out.ret < arith.n
        /\ Rem(arith.a - arith.out.ret, arith.n) = 0

\* The same statement where (a % n) + n fits the width (not a claim of its
\* own).
EuclideanRemainderNoOverflow ==
    (arith.fn \in {"mod", "euclidean_modulo_natural"}
        /\ arith.phase = "return"
        /\ Rem(arith.a, arith.n) + arith.n <= IntMax) =>
        /\ ~arith.out.abort
        /\ arith.out.ret >= 0
        /\ arith.out.ret < arith.n
        /\ Rem(arith.a - arith.out.ret, arith.n) = 0

====
